---- MODULE Spec2Model ----
(***************************************************************************)
(* Model of the Edit Decision Compiler of AIdirector                       *)
(* (services/videoEngine.ts, class VideoEngine, the version with the       *)
(* explicit merge pass).                                                   *)
(*                                                                         *)
(* Times of text segments are held in milliseconds (the resolution of the  *)
(* SRT timestamps); Math.floor(seconds * fps) is (ms * fps) \div 1000.     *)
(* A text is a sequence of one-character strings, so that                  *)
(* `a += " " + b` is a real concatenation with a separator.                *)
(***************************************************************************)
EXTENDS Integers, Sequences, FiniteSets, TLC

\* VideoEngine: the arguments of a call, the locals of calculateCuts, the
\* results, and the position of the caller
VARIABLES sequenceData, fullSrt, selectedSrtIds,
          rawSegments, mergedSegments, finalCuts, previewRows, pc

\* GeminiService.selectQuotes: the transcript it is given, the target
\* duration, the ids of the parsed AI response and the returned list
VARIABLES srtData, targetDuration, aiSelectedIds, filteredIds, selectorPc

\* SrtParser.parse: the blocks of the file and the emitted entries
VARIABLES blocks, entries, srtParserPc

\* PremiereXmlParser.parse: the file nodes, the video tracks with their
\* clipitem nodes, and the emitted clip list
VARIABLES xmlDoc, parsedSequence, xmlParserPc

\* App: the React state and the in-flight run of handleRunDirector
VARIABLES app, run

engineVars == <<sequenceData, fullSrt, selectedSrtIds,
                rawSegments, mergedSegments, finalCuts, previewRows, pc>>

selectorVars == <<srtData, targetDuration, aiSelectedIds, filteredIds,
                  selectorPc>>

srtParserVars == <<blocks, entries, srtParserPc>>

xmlParserVars == <<xmlDoc, parsedSequence, xmlParserPc>>

appVars == <<app, run>>

vars == <<engineVars, selectorVars, srtParserVars, xmlParserVars, appVars>>

(***************************************************************************)
(* Program constants                                                       *)
(***************************************************************************)
paddingHead == 5

paddingTail == 5

mergeTolerance == 2

(***************************************************************************)
(* Bounds of the model                                                     *)
(***************************************************************************)
MaxSel == 3

(***************************************************************************)
(* Generic helpers                                                         *)
(***************************************************************************)
Min(a, b) == IF a < b THEN a ELSE b

Max(a, b) == IF a > b THEN a ELSE b

SeqsUpTo(S, n) == UNION { [1..k -> S] : k \in 0..n }

(***************************************************************************)
(* Input data (types.ts)                                                   *)
(***************************************************************************)
ClipItem(id, start, end, in, fileId, trackIndex) ==
    [id |-> id, name |-> <<"name", fileId>>, start |-> start, end |-> end,
     in |-> in, out |-> in + (end - start), fileId |-> fileId,
     filePath |-> <<"path", fileId>>, masterClipId |-> <<"master", fileId>>,
     trackIndex |-> trackIndex]

SrtEntry(id, startMs, endMs, text) ==
    [id |-> id, startTime |-> startMs, endTime |-> endMs, text |-> text]

(***************************************************************************)
(* calculateCuts, step 0: [...selectedSrtIds].sort((a, b) => a - b)        *)
(***************************************************************************)
RECURSIVE InsertSorted(_, _)
InsertSorted(s, x) ==
    IF s = <<>> THEN <<x>>
    ELSE IF x < Head(s) THEN <<x>> \o s
    ELSE <<Head(s)>> \o InsertSorted(Tail(s), x)

RECURSIVE SortFrom(_, _)
SortFrom(acc, s) ==
    IF s = <<>> THEN acc ELSE SortFrom(InsertSorted(acc, Head(s)), Tail(s))

sortedIdsUnsorted(ids) == ids

sortedIds(ids) == SortFrom(<<>>, ids)

(***************************************************************************)
(* srtMap = new Map(fullSrt.map(s => [s.id, s])): the last entry with a    *)
(* given id wins; get() of an absent id is undefined, modelled as the      *)
(* empty sequence, a present entry e as <<e>>.                             *)
(***************************************************************************)
srtMapHas(srt, id) == \E k \in 1..Len(srt) : srt[k].id = id

srtMapGetOrLast(srt, id) ==
    IF srtMapHas(srt, id)
    THEN << srt[CHOOSE k \in 1..Len(srt) :
                  /\ srt[k].id = id
                  /\ \A j \in (k+1)..Len(srt) : srt[j].id # id] >>
    ELSE IF srt = <<>> THEN <<>> ELSE << srt[Len(srt)] >>

srtMapGet(srt, id) ==
    IF srtMapHas(srt, id)
    THEN << srt[CHOOSE k \in 1..Len(srt) :
                  /\ srt[k].id = id
                  /\ \A j \in (k+1)..Len(srt) : srt[j].id # id] >>
    ELSE <<>>

(***************************************************************************)
(* Math.floor(srt.startTime * fps)                                         *)
(***************************************************************************)
timeToFrame(ms, fps) == (ms * fps) \div 1000

(***************************************************************************)
(* sequenceData.clips.find(c => c.start <= f && c.end > f): index of the   *)
(* first clip in array order covering f, 0 when there is none              *)
(***************************************************************************)
covers(c, f) == c.start <= f /\ c.end > f

coversInclusiveEnd(c, f) == c.start <= f /\ c.end >= f

findClipInclusiveEnd(clips, f) ==
    IF \E k \in 1..Len(clips) : coversInclusiveEnd(clips[k], f)
    THEN CHOOSE k \in 1..Len(clips) :
            /\ coversInclusiveEnd(clips[k], f)
            /\ \A j \in 1..(k-1) : ~coversInclusiveEnd(clips[j], f)
    ELSE 0

findClip(clips, f) ==
    IF \E k \in 1..Len(clips) : covers(clips[k], f)
    THEN CHOOSE k \in 1..Len(clips) :
            /\ covers(clips[k], f)
            /\ \A j \in 1..(k-1) : ~covers(clips[j], f)
    ELSE 0

(***************************************************************************)
(* calculateCuts, pass 1: the raw candidate segment of one selected id,    *)
(* <<>> when the loop body ends in `continue`                              *)
(***************************************************************************)
RawSegment(id, srt, clip, sourceIn, sourceOut) ==
    [srtId |-> id, text |-> srt.text, fileId |-> clip.fileId,
     filePath |-> clip.filePath, clipName |-> clip.name,
     sourceIn |-> sourceIn, sourceOut |-> sourceOut,
     masterClipId |-> clip.masterClipId, trackIndex |-> clip.trackIndex]

\* a pass 1 that clamps the duration to the frames left in the clip
rawSegmentOfClampAtClipEnd(id, srtList, seq) ==
    LET got == srtMapGet(srtList, id) IN
    IF got = <<>> THEN <<>>
    ELSE
    LET srt           == got[1]
        srtStartFrame == timeToFrame(srt.startTime, seq.fps)
        srtEndFrame   == timeToFrame(srt.endTime, seq.fps)
        rawDuration   == srtEndFrame - srtStartFrame
        k             == findClip(seq.clips, srtStartFrame)
    IN
    IF rawDuration <= 0 THEN <<>>
    ELSE IF k = 0 THEN <<>>
    ELSE
    LET clip                  == seq.clips[k]
        offsetFromClipStart   == srtStartFrame - clip.start
        unclamped             == (clip.in + offsetFromClipStart) - paddingHead
        newSourceIn           == IF unclamped < 0 THEN 0 ELSE unclamped
        framesRemainingInClip == clip.end - srtStartFrame
        desiredDuration       == rawDuration + paddingHead + paddingTail
        finalDuration         == Min(desiredDuration, framesRemainingInClip)
        newSourceOut          == newSourceIn + finalDuration
    IN
    IF finalDuration < 1 THEN <<>>
    ELSE << RawSegment(id, srt, clip, newSourceIn, newSourceOut) >>

rawSegmentOf(id, srtList, seq) ==
    LET got == srtMapGet(srtList, id) IN
    IF got = <<>> THEN <<>>
    ELSE
    LET srt           == got[1]
        srtStartFrame == timeToFrame(srt.startTime, seq.fps)
        srtEndFrame   == timeToFrame(srt.endTime, seq.fps)
        rawDuration   == srtEndFrame - srtStartFrame
        k             == findClip(seq.clips, srtStartFrame)
    IN
    IF rawDuration <= 0 THEN <<>>
    ELSE IF k = 0 THEN <<>>
    ELSE
    LET clip                  == seq.clips[k]
        offsetFromClipStart   == srtStartFrame - clip.start
        unclamped             == (clip.in + offsetFromClipStart) - paddingHead
        newSourceIn           == IF unclamped < 0 THEN 0 ELSE unclamped
        framesRemainingInClip == clip.end - srtStartFrame
        desiredDuration       == rawDuration + paddingHead + paddingTail
        finalDuration         == Min(desiredDuration,
                                     framesRemainingInClip + paddingHead)
        newSourceOut          == newSourceIn + finalDuration
    IN
    IF finalDuration < 1 THEN <<>>
    ELSE << RawSegment(id, srt, clip, newSourceIn, newSourceOut) >>

RECURSIVE pass1(_, _, _)
pass1(ids, srtList, seq) ==
    IF ids = <<>> THEN <<>>
    ELSE rawSegmentOf(Head(ids), srtList, seq) \o pass1(Tail(ids), srtList, seq)

(***************************************************************************)
(* calculateCuts, pass 2: merge overlapping or adjacent segments           *)
(***************************************************************************)
isSameFileAlways(current, next) == TRUE

isSameFile(current, next) == current.fileId = next.fileId

isOverlappingNoTolerance(current, next) == next.sourceIn <= current.sourceOut

isOverlappingOrAdjacent(current, next) ==
    next.sourceIn <= (current.sourceOut + mergeTolerance)

fuseTakeNextOut(current, next) ==
    [current EXCEPT !.sourceOut = next.sourceOut,
                    !.text = current.text \o <<" ">> \o next.text]

fuseKeepNextIdentity(current, next) ==
    [next EXCEPT !.sourceIn = current.sourceIn,
                 !.sourceOut = Max(current.sourceOut, next.sourceOut),
                 !.text = current.text \o <<" ">> \o next.text]

fuse(current, next) ==
    [current EXCEPT !.sourceOut = Max(current.sourceOut, next.sourceOut),
                    !.text = current.text \o <<" ">> \o next.text]

\* the loop `for (let i = 1; ...)`, with `merged` the list pushed so far
RECURSIVE mergeLoop(_, _, _, _)
mergeLoop(raw, i, current, merged) ==
    IF i > Len(raw) THEN Append(merged, current)
    ELSE LET next == raw[i] IN
         IF isSameFile(current, next) /\ isOverlappingOrAdjacent(current, next)
         THEN mergeLoop(raw, i + 1, fuse(current, next), merged)
         ELSE mergeLoop(raw, i + 1, next, Append(merged, current))

\* a merge loop that tests adjacency against the previous raw segment
\* instead of the running current one
RECURSIVE mergeLoopPrev(_, _, _, _)
mergeLoopPrev(raw, i, current, merged) ==
    IF i > Len(raw) THEN Append(merged, current)
    ELSE LET next == raw[i] IN
         IF isSameFile(current, next) /\ isOverlappingOrAdjacent(raw[i-1], next)
         THEN mergeLoopPrev(raw, i + 1, fuse(current, next), merged)
         ELSE mergeLoopPrev(raw, i + 1, next, Append(merged, current))

pass2ComparePrevious(raw) ==
    IF Len(raw) > 0 THEN mergeLoopPrev(raw, 2, raw[1], <<>>) ELSE <<>>

pass2(raw) ==
    IF Len(raw) > 0 THEN mergeLoop(raw, 2, raw[1], <<>>) ELSE <<>>

(***************************************************************************)
(* calculateCuts, pass 3: timeline positions                               *)
(***************************************************************************)
EditDecisionIndexFromId(seg, index, timelineIn) ==
    LET duration == seg.sourceOut - seg.sourceIn IN
    [sequenceIndex |-> seg.srtId, srtId |-> seg.srtId,
     clipName |-> seg.clipName,
     text |-> seg.text, timelineIn |-> timelineIn,
     timelineOut |-> timelineIn + duration,
     sourceIn |-> seg.sourceIn, sourceOut |-> seg.sourceOut,
     fileId |-> seg.fileId, filePath |-> seg.filePath, duration |-> duration,
     masterClipId |-> seg.masterClipId, trackIndex |-> seg.trackIndex]

EditDecision(seg, index, timelineIn) ==
    LET duration == seg.sourceOut - seg.sourceIn IN
    [sequenceIndex |-> index, srtId |-> seg.srtId, clipName |-> seg.clipName,
     text |-> seg.text, timelineIn |-> timelineIn,
     timelineOut |-> timelineIn + duration,
     sourceIn |-> seg.sourceIn, sourceOut |-> seg.sourceOut,
     fileId |-> seg.fileId, filePath |-> seg.filePath, duration |-> duration,
     masterClipId |-> seg.masterClipId, trackIndex |-> seg.trackIndex]

RECURSIVE accumulate(_, _, _)
accumulate(segs, index, sequenceAccumulator) ==
    IF index > Len(segs) THEN <<>>
    ELSE LET cut == EditDecision(segs[index], index, sequenceAccumulator) IN
         <<cut>> \o accumulate(segs, index + 1,
                               sequenceAccumulator + cut.duration)

\* a pass 3 that numbers the cuts but never advances the accumulator
pass3NoAccumulate(segs) ==
    [index \in 1..Len(segs) |-> EditDecision(segs[index], index, 0)]

pass3(segs) == accumulate(segs, 1, 0)

(***************************************************************************)
(* calculateCuts as a function of its three arguments                      *)
(***************************************************************************)
calculateCutsOf(ids, srtList, seq) ==
    pass3(pass2(pass1(sortedIds(ids), srtList, seq)))

(***************************************************************************)
(* What a call leaves in the caller's selected-id array: the sort works on *)
(* the copy [...selectedSrtIds], the array itself keeps its order.         *)
(***************************************************************************)
selectedSortedInPlace(ids) == sortedIds(ids)

selectedAfterSort(ids) == ids

(***************************************************************************)
(* generateSourcePreview                                                   *)
(***************************************************************************)
\* scenario A, one row of the forEach over srtData
previewRowPadded(srt, index, seq) ==
    LET srtStartFrame == timeToFrame(srt.startTime, seq.fps)
        srtEndFrame   == timeToFrame(srt.endTime, seq.fps)
        duration      == srtEndFrame - srtStartFrame
        k             == findClip(seq.clips, srtStartFrame)
    IN
    IF k # 0
    THEN LET clip         == seq.clips[k]
             offsetInClip == srtStartFrame - clip.start
             sourceIn     == Max(0, clip.in + offsetInClip - paddingHead)
             sourceOut    == sourceIn + duration + paddingHead + paddingTail
         IN [sequenceIndex |-> index, srtId |-> srt.id,
             clipName |-> clip.name, text |-> srt.text,
             timelineIn |-> srtStartFrame, timelineOut |-> srtEndFrame,
             sourceIn |-> sourceIn, sourceOut |-> sourceOut,
             fileId |-> clip.fileId, filePath |-> clip.filePath,
             duration |-> duration, masterClipId |-> clip.masterClipId,
             trackIndex |-> clip.trackIndex]
    ELSE [sequenceIndex |-> index, srtId |-> srt.id,
          clipName |-> <<"[GAP / NO VIDEO]">>, text |-> srt.text,
          timelineIn |-> srtStartFrame, timelineOut |-> srtEndFrame,
          sourceIn |-> -1, sourceOut |-> -1, fileId |-> "",
          duration |-> duration, trackIndex |-> 0]

previewRow(srt, index, seq) ==
    LET srtStartFrame == timeToFrame(srt.startTime, seq.fps)
        srtEndFrame   == timeToFrame(srt.endTime, seq.fps)
        duration      == srtEndFrame - srtStartFrame
        k             == findClip(seq.clips, srtStartFrame)
    IN
    IF k # 0
    THEN LET clip         == seq.clips[k]
             offsetInClip == srtStartFrame - clip.start
             sourceIn     == clip.in + offsetInClip
             sourceOut    == sourceIn + duration
         IN [sequenceIndex |-> index, srtId |-> srt.id,
             clipName |-> clip.name, text |-> srt.text,
             timelineIn |-> srtStartFrame, timelineOut |-> srtEndFrame,
             sourceIn |-> sourceIn, sourceOut |-> sourceOut,
             fileId |-> clip.fileId, filePath |-> clip.filePath,
             duration |-> duration, masterClipId |-> clip.masterClipId,
             trackIndex |-> clip.trackIndex]
    ELSE [sequenceIndex |-> index, srtId |-> srt.id,
          clipName |-> <<"[GAP / NO VIDEO]">>, text |-> srt.text,
          timelineIn |-> srtStartFrame, timelineOut |-> srtEndFrame,
          sourceIn |-> -1, sourceOut |-> -1, fileId |-> "",
          duration |-> duration, trackIndex |-> 0]

\* a scenario A that leaves out the segments no clip covers
RECURSIVE previewRowsMappedOnly(_, _, _)
previewRowsMappedOnly(srtList, index, seq) ==
    IF index > Len(srtList) THEN <<>>
    ELSE (IF findClip(seq.clips,
                      timeToFrame(srtList[index].startTime, seq.fps)) # 0
          THEN << previewRow(srtList[index], index, seq) >>
          ELSE <<>>)
         \o previewRowsMappedOnly(srtList, index + 1, seq)

scenarioAMappedOnly(srtList, seq) == previewRowsMappedOnly(srtList, 1, seq)

scenarioA(srtList, seq) ==
    [index \in 1..Len(srtList) |-> previewRow(srtList[index], index, seq)]

\* [...sequenceData.clips].sort((a, b) => a.start - b.start), a stable sort
RECURSIVE InsertByStart(_, _)
InsertByStart(s, c) ==
    IF s = <<>> THEN <<c>>
    ELSE IF c.start < Head(s).start THEN <<c>> \o s
    ELSE <<Head(s)>> \o InsertByStart(Tail(s), c)

RECURSIVE SortByStartFrom(_, _)
SortByStartFrom(acc, s) ==
    IF s = <<>> THEN acc
    ELSE SortByStartFrom(InsertByStart(acc, Head(s)), Tail(s))

sortedClips(clipList) == SortByStartFrom(<<>>, clipList)

\* scenario B, one row per physical clip
clipRow(clip, index) ==
    [sequenceIndex |-> index, srtId |-> 0, clipName |-> clip.name,
     text |-> <<"[Video Clip]">>, timelineIn |-> clip.start,
     timelineOut |-> clip.end, sourceIn |-> clip.in, sourceOut |-> clip.out,
     fileId |-> clip.fileId, filePath |-> clip.filePath,
     duration |-> clip.end - clip.start, masterClipId |-> clip.masterClipId,
     trackIndex |-> clip.trackIndex]

scenarioB(seq) ==
    LET sorted == sortedClips(seq.clips) IN
    [index \in 1..Len(sorted) |-> clipRow(sorted[index], index)]

generateSourcePreviewOf(seq, srtList) ==
    IF Len(srtList) > 0 THEN scenarioA(srtList, seq) ELSE scenarioB(seq)

(***************************************************************************)
(* Inputs of the compiler.  Timelines are clip lists as the XML parser     *)
(* returns them (sorted by start); an unspeeded clip has                   *)
(* out = in + (end - start).                                               *)
(***************************************************************************)
\* the timeline of the worked example: one clip [0,500) on source [1000,1500)
ExampleClips == << ClipItem("c1", 0, 500, 1000, "f", 1) >>

\* a clip whose source in point is below the head padding
LowInClips == << ClipItem("c1", 0, 12, 2, "f", 1) >>

\* the same file used twice, the later clip showing earlier material;
\* timeline frames 10 and 11 are covered by no clip
ReuseClips == << ClipItem("c1", 0, 10, 100, "f", 1),
                 ClipItem("c2", 12, 60, 50, "f", 1) >>

\* a two-frame cutaway to another file inside a continuous shot
CutawayClips == << ClipItem("c1", 0, 10, 100, "f", 1),
                   ClipItem("c2", 10, 12, 0, "g", 1),
                   ClipItem("c3", 12, 60, 112, "f", 1) >>

\* clips of two tracks that overlap on the timeline
TwoTrackClips == << ClipItem("c1", 0, 20, 100, "f", 2),
                    ClipItem("c2", 5, 60, 200, "g", 1) >>

ClipLists == {ExampleClips, LowInClips, ReuseClips, CutawayClips,
              TwoTrackClips}

\* a timeline whose timebase the XML gives as 0
ZeroFpsTimeline ==
    [fps |-> 0, width |-> 1920, height |-> 1080, clips |-> ExampleClips]

Timelines == { [fps |-> 25, width |-> 1920, height |-> 1080, clips |-> cl] :
               cl \in ClipLists } \cup {ZeroFpsTimeline}

\* <<startTime, endTime>> in milliseconds; at 25 fps these are the frame
\* ranges [0,25) [26,50) [0,2) [8,10) [10,11) [1,1) [14,27)
TimeRanges == { <<0, 1000>>, <<1040, 2000>>, <<0, 80>>, <<330, 400>>,
                <<400, 470>>, <<40, 70>>, <<560, 1080>> }

SrtIds == {1, 2, 3}

\* ids a selector may return: those of the text segments and one unknown id
SelectableIds == SrtIds \cup {4}

TextOf(id) == << CASE id = 1 -> "a" [] id = 2 -> "b" [] OTHER -> "c" >>

SrtLists == { [k \in SrtIds |-> SrtEntry(k, t[k][1], t[k][2], TextOf(k))] :
              t \in [SrtIds -> TimeRanges] }

(***************************************************************************)
(* The parts of the state a specification does not use stay at rest        *)
(***************************************************************************)
SelectorAtRest ==
    /\ srtData = <<>>
    /\ targetDuration = 0
    /\ aiSelectedIds = <<>>
    /\ filteredIds = <<>>
    /\ selectorPc = "rest"

SrtParserAtRest ==
    /\ blocks = <<>>
    /\ entries = <<>>
    /\ srtParserPc = "rest"

XmlParserAtRest ==
    /\ xmlDoc = <<>>
    /\ parsedSequence = <<>>
    /\ xmlParserPc = "rest"

AppAtRest ==
    /\ app = <<>>
    /\ run = <<>>

EngineAtRest ==
    /\ sequenceData = <<>>
    /\ fullSrt = <<>>
    /\ selectedSrtIds = <<>>
    /\ rawSegments = <<>>
    /\ mergedSegments = <<>>
    /\ finalCuts = <<>>
    /\ previewRows = <<>>
    /\ pc = "rest"

(***************************************************************************)
(* The state machine: one call of calculateCuts on drawn inputs            *)
(***************************************************************************)
Init ==
    /\ sequenceData \in Timelines
    /\ fullSrt \in SrtLists
    /\ selectedSrtIds \in SeqsUpTo(SelectableIds, MaxSel)
    /\ rawSegments = <<>>
    /\ mergedSegments = <<>>
    /\ finalCuts = <<>>
    /\ previewRows = <<>>
    /\ pc = "ready"
    /\ SelectorAtRest /\ SrtParserAtRest /\ XmlParserAtRest /\ AppAtRest

\* calculateCuts has no failure path: every call ends in `return finalCuts`
calculateCuts ==
    /\ pc \in {"ready", "previewed"}
    /\ rawSegments' = pass1(sortedIds(selectedSrtIds), fullSrt, sequenceData)
    /\ mergedSegments' = pass2(rawSegments')
    /\ finalCuts' = pass3(mergedSegments')
    /\ selectedSrtIds' = selectedAfterSort(selectedSrtIds)
    /\ pc' = "returned"
    /\ UNCHANGED <<sequenceData, fullSrt, previewRows>>
    /\ UNCHANGED <<selectorVars, srtParserVars, xmlParserVars, appVars>>

Next == calculateCuts

Spec == Init /\ [][Next]_vars

(***************************************************************************)
(* The preview and the compiler on the same inputs: the preview is         *)
(* generated when the data is loaded, the compiler runs on a selection     *)
(* afterwards.  The text-segment list may be empty (scenario B).           *)
(***************************************************************************)
PreviewSelections == { <<>>, <<4>>, <<2, 1>>, <<3, 1, 2>> }

InitPreview ==
    /\ sequenceData \in Timelines
    /\ fullSrt \in SrtLists \cup { <<>> }
    /\ selectedSrtIds \in PreviewSelections
    /\ rawSegments = <<>>
    /\ mergedSegments = <<>>
    /\ finalCuts = <<>>
    /\ previewRows = <<>>
    /\ pc = "ready"
    /\ SelectorAtRest /\ SrtParserAtRest /\ XmlParserAtRest /\ AppAtRest

generateSourcePreview ==
    /\ pc = "ready"
    /\ previewRows' = generateSourcePreviewOf(sequenceData, fullSrt)
    /\ pc' = "previewed"
    /\ UNCHANGED <<sequenceData, fullSrt, selectedSrtIds,
                   rawSegments, mergedSegments, finalCuts>>
    /\ UNCHANGED <<selectorVars, srtParserVars, xmlParserVars, appVars>>

NextPreview == generateSourcePreview \/ calculateCuts

SpecPreview == InitPreview /\ [][NextPreview]_vars

(***************************************************************************)
(* GeminiService.selectQuotes.  Durations are held in tenths of a second:  *)
(* Number((endTime - startTime).toFixed(1)) rounds the milliseconds to the *)
(* nearest tenth, half up.                                                 *)
(***************************************************************************)
ESTIMATED_PADDING_PER_CUT == 5

roundedDuration(srt) == ((srt.endTime - srt.startTime) + 50) \div 100

\* idMap = new Map(simplifiedTranscript.map(s => [s.id, s.d])), get(id) as
\* <<>> for undefined and <<d>> otherwise
idMapGet(transcript, id) ==
    LET got == srtMapGet(transcript, id) IN
    IF got = <<>> THEN <<>> ELSE << roundedDuration(got[1]) >>

\* the loop `for (const id of result.selectedIds)` from position i on
RECURSIVE enforceLimit(_, _, _, _, _, _)
enforceLimit(ids, i, transcript, target, accumulatedDuration, filtered) ==
    IF i > Len(ids) THEN filtered
    ELSE LET rawDur == idMapGet(transcript, ids[i]) IN
         IF rawDur = <<>>
         THEN enforceLimit(ids, i + 1, transcript, target,
                           accumulatedDuration, filtered)
         ELSE LET clipTotalDuration == rawDur[1] + ESTIMATED_PADDING_PER_CUT IN
              IF accumulatedDuration + clipTotalDuration > target
              THEN filtered
              ELSE enforceLimit(ids, i + 1, transcript, target,
                                accumulatedDuration + clipTotalDuration,
                                Append(filtered, ids[i]))

\* the value selectQuotes resolves with, for the ids of the AI response
postProcess(ids, transcript, target) ==
    LET filtered == enforceLimit(ids, 1, transcript, target, 0, <<>>) IN
    IF Len(filtered) = 0 /\ Len(ids) > 0 THEN << ids[1] >> ELSE filtered

\* transcripts of three segments lasting 1.0 s, 0.08 s or 0.52 s
SelectorTimeRanges == { <<0, 1000>>, <<0, 80>>, <<560, 1080>> }

SelectorTranscripts ==
    { [k \in SrtIds |-> SrtEntry(k, t[k][1], t[k][2], TextOf(k))] :
      t \in [SrtIds -> SelectorTimeRanges] }

\* target durations in tenths of a second: 0 s, 1.5 s, 3 s and the 60 s the
\* App starts with
TargetDurations == {0, 15, 30, 600}

InitSelector ==
    /\ srtData \in SelectorTranscripts
    /\ targetDuration \in TargetDurations
    /\ aiSelectedIds \in SeqsUpTo(SelectableIds, MaxSel)
    /\ filteredIds = <<>>
    /\ selectorPc = "awaiting"
    /\ EngineAtRest /\ SrtParserAtRest /\ XmlParserAtRest /\ AppAtRest

\* the response parsed into { selectedIds: [...] }: post-processing, return
selectQuotesResolve ==
    /\ selectorPc = "awaiting"
    /\ filteredIds' = postProcess(aiSelectedIds, srtData, targetDuration)
    /\ selectorPc' = "resolved"
    /\ UNCHANGED <<srtData, targetDuration, aiSelectedIds>>
    /\ UNCHANGED <<engineVars, srtParserVars, xmlParserVars, appVars>>

\* no candidate, abnormal finish, empty text or invalid JSON: the promise
\* rejects
selectQuotesReject ==
    /\ selectorPc = "awaiting"
    /\ selectorPc' = "rejected"
    /\ UNCHANGED <<srtData, targetDuration, aiSelectedIds, filteredIds>>
    /\ UNCHANGED <<engineVars, srtParserVars, xmlParserVars, appVars>>

NextSelector == selectQuotesResolve \/ selectQuotesReject

SpecSelector == InitSelector /\ [][NextSelector]_vars

(***************************************************************************)
(* SrtParser.parse.  The file is held as the list of its blocks (the       *)
(* result of the split on blank lines), a block as the list of its lines.  *)
(* A line is an index line (digits only), a timestamp line                 *)
(* `start --> end`, or a text line; a timestamp is <<h, m, s, ms>>.        *)
(***************************************************************************)
IndexLine(n) == [kind |-> "index", n |-> n]

TimeLine(startStr, endStr) ==
    [kind |-> "time", startStr |-> startStr, endStr |-> endStr]

TextLine(t) == [kind |-> "text", t |-> t]

\* HH:MM:SS,ms -> seconds, held in milliseconds; a string with fewer than
\* three parts gives 0
timeToSeconds(stamp) ==
    IF Len(stamp) < 4 THEN 0
    ELSE (stamp[1] * 3600000) + (stamp[2] * 60000) + (stamp[3] * 1000)
         + stamp[4]

\* lines.findIndex(l => l.includes('-->')), 0 for -1 and k for index k - 1
timeLineIdx(lines) ==
    IF \E k \in 1..Len(lines) : lines[k].kind = "time"
    THEN CHOOSE k \in 1..Len(lines) :
            /\ lines[k].kind = "time"
            /\ \A j \in 1..(k - 1) : lines[j].kind # "time"
    ELSE 0

\* the id of the entry of a block, given the entries emitted so far
blockId(lines, emitted) ==
    LET k == timeLineIdx(lines) IN
    IF k > 1 /\ lines[k - 1].kind = "index"
    THEN lines[k - 1].n
    ELSE Len(emitted) + 1

\* textLines.join(' '), a line of text being a list of characters
RECURSIVE joinLines(_)
joinLines(textLines) ==
    IF textLines = <<>> THEN <<>>
    ELSE IF Len(textLines) = 1 THEN <<Head(textLines).t>>
    ELSE <<Head(textLines).t>> \o <<" ">> \o joinLines(Tail(textLines))

\* the body of blocks.forEach
parseBlock(lines, emitted) ==
    IF Len(lines) < 2 THEN emitted
    ELSE LET k == timeLineIdx(lines) IN
         IF k = 0 THEN emitted
         ELSE LET textLines == SubSeq(lines, k + 1, Len(lines))
                  text == joinLines(textLines)
              IN IF lines[k].startStr # <<>> /\ lines[k].endStr # <<>>
                 THEN Append(emitted,
                             SrtEntry(blockId(lines, emitted),
                                      timeToSeconds(lines[k].startStr),
                                      timeToSeconds(lines[k].endStr),
                                      text))
                 ELSE emitted

RECURSIVE parseBlocks(_, _)
parseBlocks(blockList, emitted) ==
    IF blockList = <<>> THEN emitted
    ELSE parseBlocks(Tail(blockList), parseBlock(Head(blockList), emitted))

parseSrt(blockList) == parseBlocks(blockList, <<>>)

MaxBlocks == 3

\* a well-formed block 1 and 2, a block without index line, a block that
\* repeats index 1, a block whose end is not later than its start, a block
\* of one line, and a block without timestamp line
BlockPool ==
    { << IndexLine(1), TimeLine(<<0, 0, 0, 0>>, <<0, 0, 1, 0>>),
         TextLine("a") >>,
      << IndexLine(2), TimeLine(<<0, 0, 1, 40>>, <<0, 0, 2, 0>>),
         TextLine("b") >>,
      << TimeLine(<<0, 0, 2, 0>>, <<0, 0, 3, 0>>), TextLine("c") >>,
      << IndexLine(1), TimeLine(<<0, 1, 0, 0>>, <<0, 1, 1, 500>>),
         TextLine("d"), TextLine("e") >>,
      << IndexLine(3), TimeLine(<<0, 0, 5, 0>>, <<0, 0, 5, 0>>),
         TextLine("f") >>,
      << TextLine("g") >>,
      << TextLine("h"), TextLine("i") >> }

InitSrtParser ==
    /\ blocks \in SeqsUpTo(BlockPool, MaxBlocks)
    /\ entries = <<>>
    /\ srtParserPc = "called"
    /\ EngineAtRest /\ SelectorAtRest /\ XmlParserAtRest /\ AppAtRest

SrtParserParse ==
    /\ srtParserPc = "called"
    /\ entries' = parseSrt(blocks)
    /\ srtParserPc' = "parsed"
    /\ UNCHANGED blocks
    /\ UNCHANGED <<engineVars, selectorVars, xmlParserVars, appVars>>

NextSrtParser == SrtParserParse

SpecSrtParser == InitSrtParser /\ [][NextSrtParser]_vars

(***************************************************************************)
(* PremiereXmlParser.parse.  The document is held as its timebase element  *)
(* (<<>> when absent) and its video tracks, a track as the list of its     *)
(* clipitem elements.  A clipitem carries its four numbers as parseInt     *)
(* reads them and its file element (<<>> when absent); a file element      *)
(* carries its id and, when it is the defining occurrence, pathurl and     *)
(* name.  The documents drawn have no samplecharacteristics element.       *)
(***************************************************************************)
FileNode(id) ==
    [id |-> id, pathurl |-> <<<<"path", id>>>>, name |-> <<<<"name", id>>>>]

FileReference(id) == [id |-> id, pathurl |-> <<>>, name |-> <<>>]

ClipNode(id, start, end, in, out, file) ==
    [id |-> id, start |-> start, end |-> end, in |-> in, out |-> out,
     file |-> file,
     masterclipid |-> IF file = <<>> THEN "" ELSE <<"master", file[1].id>>]

\* xmlDoc.querySelectorAll("file"), in document order
RECURSIVE fileNodesOfTrack(_)
fileNodesOfTrack(clipNodes) ==
    IF clipNodes = <<>> THEN <<>>
    ELSE Head(clipNodes).file \o fileNodesOfTrack(Tail(clipNodes))

RECURSIVE allFileNodes(_)
allFileNodes(tracks) ==
    IF tracks = <<>> THEN <<>>
    ELSE fileNodesOfTrack(Head(tracks)) \o allFileNodes(Tail(tracks))

\* fileMap.get(id) after pass 1: the last file element with this id that
\* has pathurl and name, <<>> for undefined
RECURSIVE fileMapGet(_, _)
fileMapGet(files, id) ==
    IF files = <<>> THEN <<>>
    ELSE LET f == files[Len(files)] IN
         IF f.id = id /\ f.pathurl # <<>> /\ f.name # <<>>
         THEN << [path |-> f.pathurl[1], name |-> f.name[1]] >>
         ELSE fileMapGet(SubSeq(files, 1, Len(files) - 1), id)

\* if (fileId && start !== -1 && end !== -1) and if (fileInfo)
clipAccepted(node, files) ==
    /\ node.file # <<>>
    /\ node.start # -1
    /\ node.end # -1
    /\ fileMapGet(files, node.file[1].id) # <<>>

clipOfNode(node, trackIndex, files) ==
    LET fileInfo == fileMapGet(files, node.file[1].id)[1] IN
    [id |-> node.id, name |-> fileInfo.name, start |-> node.start,
     end |-> node.end, in |-> node.in, out |-> node.out,
     fileId |-> node.file[1].id, filePath |-> fileInfo.path,
     masterClipId |-> node.masterclipid, trackIndex |-> trackIndex]

\* clipNodes.forEach of one track
RECURSIVE clipsOfTrack(_, _, _)
clipsOfTrack(clipNodes, trackIndex, files) ==
    IF clipNodes = <<>> THEN <<>>
    ELSE (IF clipAccepted(Head(clipNodes), files)
          THEN << clipOfNode(Head(clipNodes), trackIndex, files) >>
          ELSE <<>>)
         \o clipsOfTrack(Tail(clipNodes), trackIndex, files)

\* videoTrackNodes.forEach from track number index on
RECURSIVE clipsOfTracks(_, _, _)
clipsOfTracks(tracks, index, files) ==
    IF index > Len(tracks) THEN <<>>
    ELSE clipsOfTrack(tracks[index], index, files)
         \o clipsOfTracks(tracks, index + 1, files)

parseXml(doc) ==
    [fps |-> IF doc.timebase = <<>> THEN 25 ELSE doc.timebase[1],
     width |-> 1920, height |-> 1080,
     clips |-> sortedClips(clipsOfTracks(doc.tracks, 1,
                                         allFileNodes(doc.tracks)))]

MaxClipItems == 3

\* two well-formed clip items, a clip item next to a transition (start -1),
\* one of no length that refers to file f, one without in and out point
\* (-1), one whose file has no pathurl, and one without file element
ClipNodePool ==
    { ClipNode("c1", 0, 20, 100, 120, <<FileNode("f")>>),
      ClipNode("c2", 5, 60, 200, 255, <<FileNode("g")>>),
      ClipNode("c3", -1, 20, 0, 20, <<FileReference("f")>>),
      ClipNode("c4", 30, 30, 0, 0, <<FileReference("f")>>),
      ClipNode("c5", 60, 80, -1, -1, <<FileNode("g")>>),
      ClipNode("c6", 0, 10, 0, 10, <<FileReference("h")>>),
      ClipNode("c7", 0, 10, 0, 10, <<>>) }

TrackNumbers == {1, 2}

Timebases == { <<>>, <<25>>, <<0>> }

\* the clip items of track t among the placed items, in document order
RECURSIVE trackOf(_, _)
trackOf(items, t) ==
    IF items = <<>> THEN <<>>
    ELSE (IF Head(items)[2] = t THEN << Head(items)[1] >> ELSE <<>>)
         \o trackOf(Tail(items), t)

InitXmlParser ==
    /\ \E items \in SeqsUpTo(ClipNodePool \X TrackNumbers, MaxClipItems) :
       \E tb \in Timebases :
          xmlDoc = [timebase |-> tb,
                    tracks |-> << trackOf(items, 1), trackOf(items, 2) >>]
    /\ parsedSequence = <<>>
    /\ xmlParserPc = "called"
    /\ EngineAtRest /\ SelectorAtRest /\ SrtParserAtRest /\ AppAtRest

PremiereXmlParserParse ==
    /\ xmlParserPc = "called"
    /\ parsedSequence' = parseXml(xmlDoc)
    /\ xmlParserPc' = "parsed"
    /\ UNCHANGED xmlDoc
    /\ UNCHANGED <<engineVars, selectorVars, srtParserVars, appVars>>

NextXmlParser == PremiereXmlParserParse

SpecXmlParser == InitXmlParser /\ [][NextXmlParser]_vars

(***************************************************************************)
(* App (App.tsx).  `app` holds the React state the handlers write, `run`   *)
(* the calls of handleRunDirector in the order they were started: each     *)
(* with the srtData and sequenceData its closure captured (held until the  *)
(* call returns), the ids the selector delivered, where it stands, and     *)
(* the events it went through.                                             *)
(***************************************************************************)
InitialApp ==
    [sequenceData |-> <<>>, srtData |-> <<>>, sourceCuts |-> <<>>,
     generatedCuts |-> <<>>, viewMode |-> "source", status |-> "idle"]

\* the effect on [sequenceData, srtData], run after the render that follows
\* a change of either
sourcePreviewEffect(a) ==
    IF a.sequenceData # <<>>
    THEN [a EXCEPT
            !.sourceCuts = generateSourcePreviewOf(a.sequenceData[1],
                                                   a.srtData),
            !.viewMode = IF Len(a.generatedCuts) = 0 THEN "source" ELSE @]
    ELSE a

\* the run button is disabled while a run is in flight or an input is missing
runButtonEnabled(a) ==
    /\ a.status \notin {"parsing", "thinking", "calculating"}
    /\ a.sequenceData # <<>>
    /\ Len(a.srtData) # 0

\* handleRunDirector up to the first await
runStarted(a) ==
    [phase |-> "awaitSelector", srtData |-> a.srtData,
     sequenceData |-> a.sequenceData[1], selectedIds |-> <<>>,
     events |-> <<"thinking">>]

\* handleRunDirector from the resolution of selectQuotes to the second await
afterSelectorResolvedNoEmptyCheck(r, ids) ==
    [r EXCEPT !.phase = "awaitDelay", !.selectedIds = ids,
              !.events = @ \o <<"resolved", "calculating">>]

afterSelectorResolved(r, ids) ==
    IF Len(ids) = 0
    THEN [r EXCEPT !.phase = "finished", !.selectedIds = ids,
                   !.srtData = <<>>, !.sequenceData = <<>>,
                   !.events = @ \o <<"resolved", "error">>]
    ELSE [r EXCEPT !.phase = "awaitDelay", !.selectedIds = ids,
                   !.events = @ \o <<"resolved", "calculating">>]

\* the catch block
afterSelectorRejected(r) ==
    [r EXCEPT !.phase = "finished", !.srtData = <<>>, !.sequenceData = <<>>,
              !.events = @ \o <<"rejected", "error">>]

\* handleRunDirector after the 50 ms delay
afterDelay(r) ==
    [r EXCEPT !.phase = "finished", !.srtData = <<>>, !.sequenceData = <<>>,
              !.events = @ \o <<"calculateCuts", "setGeneratedCuts", "done">>]

\* videoEngine.calculateCuts(selectedIds, srtData, sequenceData) of the run,
\* every pass working on the finished list of the pass before it
cutsOfRun(r) ==
    CHOOSE cuts \in
        { pass3(merged) : merged \in
            { pass2(raw) : raw \in
                { pass1(sorted, r.srtData, r.sequenceData) : sorted \in
                    { sortedIds(r.selectedIds) } } } } : TRUE

MaxRuns == 2

AppTimelines ==
    { [fps |-> 25, width |-> 1920, height |-> 1080, clips |-> cl] :
      cl \in {ExampleClips, ReuseClips} }

\* at 25 fps the frame ranges [0,25) [26,50) [14,27) and [10,11) [0,25)
\* [26,50); frame 10 is covered by no clip of ReuseClips
AppSrtLists ==
    { << SrtEntry(1, 0, 1000, TextOf(1)), SrtEntry(2, 1040, 2000, TextOf(2)),
         SrtEntry(3, 560, 1080, TextOf(3)) >>,
      << SrtEntry(1, 400, 470, TextOf(1)), SrtEntry(2, 0, 1000, TextOf(2)),
         SrtEntry(3, 1040, 2000, TextOf(3)) >> }

\* the selectedIds of the AI response
AiResponses == { <<>>, <<1>>, <<2, 1>> }

\* the 60 s the target duration starts with, in tenths of a second
AppTargetDuration == 600

InitApp ==
    /\ app = InitialApp
    /\ run = <<>>
    /\ EngineAtRest /\ SelectorAtRest /\ SrtParserAtRest /\ XmlParserAtRest

handleXmlLoad ==
    /\ \E parsed \in AppTimelines :
          app' = sourcePreviewEffect([app EXCEPT !.sequenceData = <<parsed>>])
    /\ UNCHANGED run
    /\ UNCHANGED <<engineVars, selectorVars, srtParserVars, xmlParserVars>>

handleSrtLoad ==
    /\ \E parsed \in AppSrtLists :
          app' = sourcePreviewEffect([app EXCEPT !.srtData = parsed])
    /\ UNCHANGED run
    /\ UNCHANGED <<engineVars, selectorVars, srtParserVars, xmlParserVars>>

\* the reset the user confirmed, or asked for with nothing loaded
handleReset ==
    /\ app' = sourcePreviewEffect(InitialApp)
    /\ UNCHANGED run
    /\ UNCHANGED <<engineVars, selectorVars, srtParserVars, xmlParserVars>>

\* the two tabs; the second is rendered only when generatedCuts is not empty
selectSourceTab ==
    /\ app' = [app EXCEPT !.viewMode = "source"]
    /\ UNCHANGED run
    /\ UNCHANGED <<engineVars, selectorVars, srtParserVars, xmlParserVars>>

selectGeneratedTab ==
    /\ Len(app.generatedCuts) > 0
    /\ app' = [app EXCEPT !.viewMode = "generated"]
    /\ UNCHANGED run
    /\ UNCHANGED <<engineVars, selectorVars, srtParserVars, xmlParserVars>>

\* a click on the run button
handleRunDirector ==
    /\ runButtonEnabled(app)
    /\ Len(run) < MaxRuns
    /\ IF app.sequenceData = <<>> \/ Len(app.srtData) = 0
       THEN /\ app' = [app EXCEPT !.status = "error"]
            /\ UNCHANGED run
       ELSE /\ app' = [app EXCEPT !.status = "thinking"]
            /\ run' = Append(run, runStarted(app))
    /\ UNCHANGED <<engineVars, selectorVars, srtParserVars, xmlParserVars>>

\* selectQuotes resolves for run i: the continuation up to the delay
selectorResolves ==
    \E i \in 1..Len(run) : \E ai \in AiResponses :
        LET ids == postProcess(ai, run[i].srtData, AppTargetDuration) IN
        /\ run[i].phase = "awaitSelector"
        /\ run' = [run EXCEPT ![i] = afterSelectorResolved(@, ids)]
        /\ app' = [app EXCEPT !.status =
                      IF run'[i].phase = "awaitDelay" THEN "calculating"
                      ELSE "error"]
        /\ UNCHANGED <<engineVars, selectorVars, srtParserVars,
                       xmlParserVars>>

\* a rejection that ends the run without touching the status
selectorRejectsStatusKept ==
    \E i \in 1..Len(run) :
        /\ run[i].phase = "awaitSelector"
        /\ run' = [run EXCEPT ![i] = afterSelectorRejected(@)]
        /\ UNCHANGED app
        /\ UNCHANGED <<engineVars, selectorVars, srtParserVars,
                       xmlParserVars>>

\* selectQuotes rejects for run i
selectorRejects ==
    \E i \in 1..Len(run) :
        /\ run[i].phase = "awaitSelector"
        /\ run' = [run EXCEPT ![i] = afterSelectorRejected(@)]
        /\ app' = [app EXCEPT !.status = "error"]
        /\ UNCHANGED <<engineVars, selectorVars, srtParserVars,
                       xmlParserVars>>

\* the delay of run i is over: compile, store, show, report
delayElapses ==
    \E i \in 1..Len(run) :
        /\ run[i].phase = "awaitDelay"
        /\ run' = [run EXCEPT ![i] = afterDelay(@)]
        /\ app' = [app EXCEPT !.generatedCuts = cutsOfRun(run[i]),
                              !.viewMode = "generated",
                              !.status = "done"]
        /\ UNCHANGED <<engineVars, selectorVars, srtParserVars,
                       xmlParserVars>>

NextApp ==
    \/ handleXmlLoad
    \/ handleSrtLoad
    \/ handleReset
    \/ selectSourceTab
    \/ selectGeneratedTab
    \/ handleRunDirector
    \/ selectorResolves
    \/ selectorRejects
    \/ delayElapses

SpecApp == InitApp /\ [][NextApp]_vars

\* behaviours with at most MaxFairRuns clicks on the run button, in which
\* the selector promise of every run settles and the 50 ms timer fires
MaxFairRuns == 1

SpecAppFair ==
    /\ InitApp
    /\ [][NextApp /\ Len(run') <= MaxFairRuns]_vars
    /\ WF_vars(selectorResolves \/ selectorRejects)
    /\ WF_vars(delayElapses)

(***************************************************************************)
(* Vocabulary of the properties                                            *)
(***************************************************************************)
Returned == pc = "returned"

startFrameOf(id) == timeToFrame(srtMapGet(fullSrt, id)[1].startTime,
                                sequenceData.fps)

endFrameOf(id) == timeToFrame(srtMapGet(fullSrt, id)[1].endTime,
                              sequenceData.fps)

\* indexes of the clips c with c.start <= frame < c.end
CoveringClips(frame) ==
    { k \in 1..Len(sequenceData.clips) :
        /\ sequenceData.clips[k].start <= frame
        /\ frame < sequenceData.clips[k].end }

\* the clip that owns the segment id: the first covering clip in array order
OwningClip(id) ==
    sequenceData.clips[CHOOSE k \in CoveringClips(startFrameOf(id)) :
                          \A j \in CoveringClips(startFrameOf(id)) : k <= j]

Known(id) == \E k \in 1..Len(fullSrt) : fullSrt[k].id = id

\* the segment id reaches the clip lookup and finds a clip
Owned(id) ==
    /\ Known(id)
    /\ endFrameOf(id) - startFrameOf(id) > 0
    /\ CoveringClips(startFrameOf(id)) # {}

Selected(id) == \E k \in 1..Len(selectedSrtIds) : selectedSrtIds[k] = id

Without(ids, id) == SelectSeq(ids, LAMBDA x : x # id)

IsPartOf(t, u) ==
    \E k \in 0..(Len(u) - Len(t)) : SubSeq(u, k + 1, k + Len(t)) = t

PermutationsOf(ids) ==
    { [k \in 1..Len(ids) |-> ids[f[k]]] : f \in Permutations(1..Len(ids)) }

Reversed(ids) == [k \in 1..Len(ids) |-> ids[Len(ids) + 1 - k]]

NoDuplicates(ids) == \A j, k \in 1..Len(ids) : ids[j] = ids[k] => j = k

(***************************************************************************)
(* C1  Monotonic timeline: a non-empty returned cut list starts at         *)
(* timelineIn = 0 and every cut starts where the previous one ends.        *)
(***************************************************************************)
C1_MonotonicTimeline ==
    (Returned /\ finalCuts # <<>>) =>
        /\ finalCuts[1].timelineIn = 0
        /\ \A i \in 1..(Len(finalCuts) - 1) :
              finalCuts[i + 1].timelineIn = finalCuts[i].timelineOut

\* several cuts out of an unsorted selection in which a merge happened
C1_Witness ==
    /\ Returned
    /\ Len(finalCuts) >= 2
    /\ Len(mergedSegments) < Len(rawSegments)
    /\ NoDuplicates(selectedSrtIds)
    /\ selectedSrtIds # sortedIds(selectedSrtIds)

(***************************************************************************)
(* C2  Duration consistency: every returned cut has                        *)
(* duration = timelineOut - timelineIn = sourceOut - sourceIn >= 1.        *)
(***************************************************************************)
C2_DurationConsistency ==
    Returned =>
        \A i \in 1..Len(finalCuts) :
            /\ finalCuts[i].duration
                  = finalCuts[i].timelineOut - finalCuts[i].timelineIn
            /\ finalCuts[i].duration
                  = finalCuts[i].sourceOut - finalCuts[i].sourceIn
            /\ finalCuts[i].duration >= 1

\* a cut fused from several raw segments whose sourceIn was clamped to 0
C2_Witness ==
    /\ Returned
    /\ \E i \in 1..Len(finalCuts) :
          /\ finalCuts[i].sourceIn = 0
          /\ OwningClip(finalCuts[i].srtId).in
               + (startFrameOf(finalCuts[i].srtId)
                    - OwningClip(finalCuts[i].srtId).start) < paddingHead
          /\ Len(finalCuts[i].text) = 3
          /\ finalCuts[i].text[1] # finalCuts[i].text[3]

(***************************************************************************)
(* C3  No out-of-bounds reads: every returned cut has sourceIn >= 0 and a  *)
(* sourceOut that does not exceed the `out` of the clip owning the cut's   *)
(* segment.                                                                *)
(***************************************************************************)
C3_NoOutOfBoundsReads ==
    Returned =>
        \A i \in 1..Len(finalCuts) :
            /\ finalCuts[i].sourceIn >= 0
            /\ finalCuts[i].sourceOut <= OwningClip(finalCuts[i].srtId).out

(***************************************************************************)
(* C4  Chronological independence: the selected ids in any order (reversed *)
(* in particular) compile to the cut list of the ascending order.          *)
(***************************************************************************)
C4_OrderIndependence ==
    Returned =>
        /\ calculateCutsOf(Reversed(selectedSrtIds), fullSrt, sequenceData)
              = finalCuts
        /\ \A p \in PermutationsOf(selectedSrtIds) :
              calculateCutsOf(p, fullSrt, sequenceData) = finalCuts

\* a selection that is not ascending and yields at least two cuts
C4_Witness ==
    /\ Returned
    /\ Len(finalCuts) >= 2
    /\ Len(selectedSrtIds) >= 2
    /\ \A k \in 1..(Len(selectedSrtIds) - 1) :
          selectedSrtIds[k] > selectedSrtIds[k + 1]

(***************************************************************************)
(* C5  Merge idempotence: the merge pass maps its own output to itself, no *)
(* two adjacent merged segments satisfy the fuse condition.                *)
(***************************************************************************)
C5_MergeIdempotent ==
    Returned =>
        /\ pass2(mergedSegments) = mergedSegments
        /\ \A i \in 1..(Len(mergedSegments) - 1) :
              ~ ( /\ mergedSegments[i].fileId = mergedSegments[i + 1].fileId
                  /\ mergedSegments[i + 1].sourceIn
                        <= mergedSegments[i].sourceOut + mergeTolerance )

\* a merge happened and left two segments of the same file side by side
C5_Witness ==
    /\ Returned
    /\ NoDuplicates(selectedSrtIds)
    /\ Len(mergedSegments) < Len(rawSegments)
    /\ \E i \in 1..(Len(mergedSegments) - 1) :
          mergedSegments[i].fileId = mergedSegments[i + 1].fileId

(***************************************************************************)
(* C6  No material is lost: the unpadded source range of every selected    *)
(* segment that is materialized and lies inside its clip is contained in   *)
(* the source range of a returned cut of the same file.                    *)
(***************************************************************************)
C6_NoMaterialLost ==
    Returned =>
        \A id \in SelectableIds :
            ( /\ Selected(id)
              /\ Owned(id)
              /\ endFrameOf(id) <= OwningClip(id).end ) =>
            LET clip   == OwningClip(id)
                first  == clip.in + (startFrameOf(id) - clip.start)
                beyond == first + (endFrameOf(id) - startFrameOf(id))
            IN \E i \in 1..Len(finalCuts) :
                  /\ finalCuts[i].fileId = clip.fileId
                  /\ finalCuts[i].sourceIn <= first
                  /\ beyond <= finalCuts[i].sourceOut

(***************************************************************************)
(* C7  No material is duplicated: the source ranges [sourceIn, sourceOut)  *)
(* of two different returned cuts of the same file never share a frame.    *)
(***************************************************************************)
C7_NoMaterialDuplicated ==
    Returned =>
        \A i, j \in 1..Len(finalCuts) :
            (i < j /\ finalCuts[i].fileId = finalCuts[j].fileId) =>
                \/ finalCuts[i].sourceOut <= finalCuts[j].sourceIn
                \/ finalCuts[j].sourceOut <= finalCuts[i].sourceIn

(***************************************************************************)
(* C8  Gap segments dropped: a selected id whose start frame no clip       *)
(* covers is the srtId of no cut, its text is part of no cut's text, and   *)
(* the result is that of the selection without the id.                     *)
(***************************************************************************)
C8_GapSegmentsDropped ==
    Returned =>
        \A id \in SelectableIds :
            ( /\ Selected(id)
              /\ Known(id)
              /\ CoveringClips(startFrameOf(id)) = {} ) =>
            /\ \A i \in 1..Len(finalCuts) :
                  /\ finalCuts[i].srtId # id
                  /\ ~ IsPartOf(srtMapGet(fullSrt, id)[1].text,
                                finalCuts[i].text)
            /\ finalCuts = calculateCutsOf(Without(selectedSrtIds, id),
                                           fullSrt, sequenceData)

\* a segment of positive duration starting in the gap, selected together
\* with segments that are compiled
C8_Witness ==
    /\ Returned
    /\ finalCuts # <<>>
    /\ \E id \in SelectableIds :
          /\ Selected(id)
          /\ Known(id)
          /\ endFrameOf(id) - startFrameOf(id) > 0
          /\ CoveringClips(startFrameOf(id)) = {}

(***************************************************************************)
(* C9  Two selected segments owned by the same clip, nothing else          *)
(* selected, with a frame gap (start of the later minus end of the         *)
(* earlier) in 0..12 compile into one cut: from the padded sourceIn of the *)
(* first (the lower id, which pass 1 emits first) to the larger padded     *)
(* sourceOut, text = first text, one space, second text.                   *)
(***************************************************************************)
FrameGap(a, b) ==
    IF startFrameOf(a) <= startFrameOf(b)
    THEN startFrameOf(b) - endFrameOf(a)
    ELSE startFrameOf(a) - endFrameOf(b)

C10_UnknownIdIgnored ==
    Returned =>
        \A id \in SelectableIds :
            (Selected(id) /\ ~ Known(id)) =>
                /\ finalCuts = calculateCutsOf(Without(selectedSrtIds, id),
                                               fullSrt, sequenceData)
                /\ \A i \in 1..Len(finalCuts) : finalCuts[i].srtId # id

\* an unknown id selected between known ids that are compiled
C10_Witness ==
    /\ Returned
    /\ finalCuts # <<>>
    /\ Len(selectedSrtIds) >= 2
    /\ \E id \in SelectableIds : Selected(id) /\ ~ Known(id)

(***************************************************************************)
(* C11  With framesPerSecond = 0 calculateCuts does not return a cut list  *)
(* but ends in an InvalidTimebase failure.                                 *)
(***************************************************************************)
C11_ZeroFpsIsInvalidTimebase ==
    (sequenceData.fps = 0 /\ pc \notin {"ready", "previewed"}) =>
        pc = "InvalidTimebase"

(***************************************************************************)
(* C12  The clip lookup, at the start frame of every text segment: it      *)
(* finds a clip exactly when some clip covers the frame, the clip found    *)
(* covers the frame, and among the covering clips it has the lowest        *)
(* trackIndex.                                                             *)
(***************************************************************************)
C12_LookupLowestTrack ==
    Returned =>
        \A n \in 1..Len(fullSrt) :
            LET f     == timeToFrame(fullSrt[n].startTime, sequenceData.fps)
                found == findClip(sequenceData.clips, f)
            IN /\ (found = 0) <=> (CoveringClips(f) = {})
               /\ found # 0 =>
                    /\ found \in CoveringClips(f)
                    /\ \A j \in CoveringClips(f) :
                          sequenceData.clips[found].trackIndex
                             <= sequenceData.clips[j].trackIndex

C14_OneRowPerSegment ==
    (pc = "previewed" /\ Len(fullSrt) > 0) =>
        /\ Len(previewRows) = Len(fullSrt)
        /\ \A n \in 1..Len(fullSrt) :
              /\ previewRows[n].sequenceIndex = n
              /\ previewRows[n].srtId = fullSrt[n].id
              /\ previewRows[n].text = fullSrt[n].text

\* a preview with a segment no clip covers and a segment that is not selected
C14_Witness ==
    /\ pc = "previewed"
    /\ Len(fullSrt) > 0
    /\ \E n \in 1..Len(fullSrt) :
          CoveringClips(timeToFrame(fullSrt[n].startTime,
                                    sequenceData.fps)) = {}
    /\ \E n \in 1..Len(fullSrt) : ~ Selected(fullSrt[n].id)

(***************************************************************************)
(* C15  A preview row is the sentinel (sourceIn = sourceOut = -1,          *)
(* trackIndex 0) exactly when no clip covers the segment's start frame;    *)
(* otherwise sourceIn = clip.in + (segStart - clip.start) and              *)
(* sourceOut = sourceIn + (segEnd - segStart), unpadded and unclamped.     *)
(***************************************************************************)
C15_SentinelOrExactMapping ==
    (pc = "previewed" /\ Len(fullSrt) > 0) =>
        \A n \in 1..Len(fullSrt) :
            LET row      == previewRows[n]
                segStart == timeToFrame(fullSrt[n].startTime, sequenceData.fps)
                segEnd   == timeToFrame(fullSrt[n].endTime, sequenceData.fps)
                covering == CoveringClips(segStart)
            IN /\ ( /\ row.sourceIn = -1
                    /\ row.sourceOut = -1
                    /\ row.trackIndex = 0 ) <=> (covering = {})
               /\ covering # {} =>
                    LET clip == sequenceData.clips[
                                   CHOOSE k \in covering :
                                      \A j \in covering : k <= j]
                    IN /\ row.sourceIn = clip.in + (segStart - clip.start)
                       /\ row.sourceOut = row.sourceIn + (segEnd - segStart)

\* a preview with a sentinel row and with a mapped row that runs past the
\* out point of its clip
C15_Witness ==
    /\ pc = "previewed"
    /\ \E n \in 1..Len(fullSrt) : previewRows[n].sourceIn = -1
    /\ \E n \in 1..Len(fullSrt) :
          /\ previewRows[n].sourceIn >= 0
          /\ previewRows[n].sourceOut > OwningClip(fullSrt[n].id).out

(***************************************************************************)
(* C16  Nothing selected and nothing matched are different outcomes: a     *)
(* call with a non-empty selection none of whose ids is a text segment     *)
(* does not end as the call with the empty selection ends.                 *)
(***************************************************************************)
C16_NothingMatchedIsTold ==
    ( /\ pc \notin {"ready", "previewed"}
      /\ selectedSrtIds # <<>>
      /\ \A n \in 1..Len(selectedSrtIds) : ~ Known(selectedSrtIds[n]) ) =>
        <<pc, finalCuts>>
           # <<"returned", calculateCutsOf(<<>>, fullSrt, sequenceData)>>

(***************************************************************************)
(* C18  Every list selectQuotes resolves with contains only ids of the     *)
(* text segments it was given.                                             *)
(***************************************************************************)
C18_ReturnsOnlyKnownIds ==
    selectorPc = "resolved" =>
        \A n \in 1..Len(filteredIds) :
            \E k \in 1..Len(srtData) : srtData[k].id = filteredIds[n]

(***************************************************************************)
(* C19  Every entry SrtParser.parse emits has endTime > startTime, and no  *)
(* two entries of one call have the same id.                               *)
(***************************************************************************)
C19_EntriesWellFormed ==
    srtParserPc = "parsed" =>
        /\ \A n \in 1..Len(entries) : entries[n].endTime > entries[n].startTime
        /\ \A n, k \in 1..Len(entries) :
              entries[n].id = entries[k].id => n = k

(***************************************************************************)
(* C20  Every clip PremiereXmlParser.parse emits has start < end, in >= 0, *)
(* out >= 0 and a fileId that a file element with pathurl and name         *)
(* resolves.                                                               *)
(***************************************************************************)
C20_ClipsWellFormed ==
    xmlParserPc = "parsed" =>
        \A n \in 1..Len(parsedSequence.clips) :
            LET clip == parsedSequence.clips[n] IN
            /\ clip.start < clip.end
            /\ clip.in >= 0
            /\ clip.out >= 0
            /\ fileMapGet(allFileNodes(xmlDoc.tracks), clip.fileId) # <<>>

(***************************************************************************)
(* C17  In App.handleRunDirector calculateCuts is called only after        *)
(* selectQuotes resolved with a non-empty id list and after the status     *)
(* became 'calculating'; 'done' is set only after generatedCuts was set    *)
(* to the result of that call; a run whose selector rejects or resolves    *)
(* with an empty list never calls calculateCuts, and the step that ends    *)
(* it leaves generatedCuts and viewMode as they were.                      *)
(***************************************************************************)
EventAt(r, e) ==
    IF \E k \in 1..Len(r.events) : r.events[k] = e
    THEN CHOOSE k \in 1..Len(r.events) : r.events[k] = e
    ELSE 0

Precedes(r, e1, e2) == EventAt(r, e1) > 0 /\ EventAt(r, e1) < EventAt(r, e2)

RunInOrder(r) ==
    /\ EventAt(r, "calculateCuts") > 0 =>
          /\ Precedes(r, "resolved", "calculating")
          /\ Precedes(r, "calculating", "calculateCuts")
          /\ Len(r.selectedIds) > 0
    /\ EventAt(r, "done") > 0 =>
          /\ Precedes(r, "calculateCuts", "setGeneratedCuts")
          /\ Precedes(r, "setGeneratedCuts", "done")
    /\ (EventAt(r, "rejected") > 0
        \/ (EventAt(r, "resolved") > 0 /\ Len(r.selectedIds) = 0)) =>
          EventAt(r, "calculateCuts") = 0

RunStepKeepsContract(i) ==
    /\ (EventAt(run[i], "done") = 0 /\ EventAt(run'[i], "done") > 0) =>
          /\ app'.generatedCuts = cutsOfRun(run[i])
          /\ app'.status = "done"
    /\ (EventAt(run[i], "error") = 0 /\ EventAt(run'[i], "error") > 0) =>
          /\ app'.generatedCuts = app.generatedCuts
          /\ app'.viewMode = app.viewMode

C17_CompilerAfterSelector ==
    [][ /\ \A i \in 1..Len(run') : RunInOrder(run'[i])
        /\ \A i \in 1..Len(run) : RunStepKeepsContract(i) ]_vars

\* a run that stored its cuts, followed by a run whose selector failed
C17_Witness ==
    /\ Len(run) = 2
    /\ EventAt(run[1], "done") > 0
    /\ EventAt(run[2], "error") > 0
    /\ Len(app.generatedCuts) > 0
    /\ app.viewMode = "generated"

(***************************************************************************)
(* C21  Head padding stays inside the owning clip: every raw segment of    *)
(* pass 1 has sourceIn >= the source in point of the clip that owns it.    *)
(***************************************************************************)
C21_HeadPaddingInsideClip ==
    Returned =>
        \A i \in 1..Len(rawSegments) :
            rawSegments[i].sourceIn >= OwningClip(rawSegments[i].srtId).in

(***************************************************************************)
(* The raw segments a cut was fused from: pass 2 cuts the list of raw      *)
(* segments into consecutive groups, one per merged segment.  A split is   *)
(* given by the index of the first raw segment of every group.             *)
(***************************************************************************)
GroupStarts ==
    { st \in [1..Len(mergedSegments) -> 1..Len(rawSegments)] :
        /\ Len(mergedSegments) > 0 => st[1] = 1
        /\ \A j \in 1..(Len(mergedSegments) - 1) : st[j] < st[j + 1] }

GroupOf(st, j) ==
    SubSeq(rawSegments, st[j],
           IF j = Len(mergedSegments) THEN Len(rawSegments)
           ELSE st[j + 1] - 1)

RECURSIVE MaxSourceOut(_)
MaxSourceOut(g) ==
    IF Len(g) = 1 THEN g[1].sourceOut
    ELSE Max(g[1].sourceOut, MaxSourceOut(Tail(g)))

RECURSIVE JoinedText(_)
JoinedText(g) ==
    IF Len(g) = 1 THEN g[1].text
    ELSE g[1].text \o <<" ">> \o JoinedText(Tail(g))

\* the cut spans the group: from the first sourceIn to the largest sourceOut
CutSpans(cut, g) ==
    /\ cut.sourceIn = g[1].sourceIn
    /\ cut.sourceOut = MaxSourceOut(g)

(***************************************************************************)
(* C22  A candidate is fused into the running segment only if both have    *)
(* the same fileId and candidate.sourceIn <= current.sourceOut + 2: every  *)
(* cut spans a group of raw segments of one file, each member after the    *)
(* first starting no later than 2 frames after the largest sourceOut       *)
(* before it, and two consecutive cuts of the same file satisfy            *)
(* next.sourceIn > prev.sourceOut + 2.                                     *)
(***************************************************************************)
C22_FuseOnlySameFileWithinTolerance ==
    Returned =>
        /\ Len(finalCuts) = Len(mergedSegments)
        /\ \E st \in GroupStarts :
              \A j \in 1..Len(finalCuts) :
                  LET g == GroupOf(st, j) IN
                  /\ CutSpans(finalCuts[j], g)
                  /\ \A n \in 1..Len(g) :
                        /\ g[n].fileId = finalCuts[j].fileId
                        /\ n > 1 => g[n].sourceIn
                                      <= MaxSourceOut(SubSeq(g, 1, n - 1))
                                         + mergeTolerance
        /\ \A j \in 1..(Len(finalCuts) - 1) :
              finalCuts[j].fileId = finalCuts[j + 1].fileId =>
                  finalCuts[j + 1].sourceIn
                      > finalCuts[j].sourceOut + mergeTolerance

\* neighbours of different files that the tolerance alone would fuse, and
\* a fusion of two segments of one file, in one compilation
C22_Witness ==
    /\ Returned
    /\ Len(rawSegments) = 3
    /\ Len(finalCuts) = 2
    /\ \E i \in 1..2 :
          /\ rawSegments[i].fileId # rawSegments[i + 1].fileId
          /\ isOverlappingOrAdjacent(rawSegments[i], rawSegments[i + 1])

(***************************************************************************)
(* C23  A cut fused from the raw segments s1..sk (ascending id order) has  *)
(* sourceIn of s1, the largest sourceOut of s1..sk, srtId, clipName,       *)
(* fileId and trackIndex of s1, and the texts of s1..sk joined in that     *)
(* order with single spaces.                                               *)
(***************************************************************************)
C23_FusedCutFields ==
    Returned =>
        /\ Len(finalCuts) = Len(mergedSegments)
        /\ \E st \in GroupStarts :
              \A j \in 1..Len(finalCuts) :
                  LET g == GroupOf(st, j) IN
                  /\ \A n \in 1..(Len(g) - 1) : g[n].srtId <= g[n + 1].srtId
                  /\ finalCuts[j].sourceIn = g[1].sourceIn
                  /\ finalCuts[j].sourceOut = MaxSourceOut(g)
                  /\ finalCuts[j].srtId = g[1].srtId
                  /\ finalCuts[j].clipName = g[1].clipName
                  /\ finalCuts[j].fileId = g[1].fileId
                  /\ finalCuts[j].trackIndex = g[1].trackIndex
                  /\ finalCuts[j].text = JoinedText(g)

\* three segments with three ids fused into one cut whose sourceOut is not
\* that of the last segment
C23_Witness ==
    /\ Returned
    /\ Len(rawSegments) = 3
    /\ Len(finalCuts) = 1
    /\ NoDuplicates(selectedSrtIds)
    /\ finalCuts[1].sourceOut > rawSegments[3].sourceOut
    /\ finalCuts[1].text = <<"a", " ", "b", " ", "c">>

(***************************************************************************)
(* C24  The k-th cut of every returned list has sequenceIndex = k, also    *)
(* when selected ids were dropped or fused into an earlier cut.            *)
(***************************************************************************)
C24_SequenceIndexIsPosition ==
    Returned =>
        \A k \in 1..Len(finalCuts) : finalCuts[k].sequenceIndex = k

\* three ids selected, one dropped or fused, and a cut whose srtId is not
\* its position
C24_Witness ==
    /\ Returned
    /\ Len(selectedSrtIds) = 3
    /\ NoDuplicates(selectedSrtIds)
    /\ Len(finalCuts) = 2
    /\ \E k \in 1..2 : finalCuts[k].srtId # k

(***************************************************************************)
(* C25  The ids selectQuotes returns have a total estimated duration (per  *)
(* id: duration rounded to 0.1 s plus 0.5 s of padding) of at most         *)
(* targetDuration.  An id of no text segment counts as 0.                  *)
(***************************************************************************)
RECURSIVE EstimatedTotal(_, _)
EstimatedTotal(ids, transcript) ==
    IF ids = <<>> THEN 0
    ELSE (IF idMapGet(transcript, Head(ids)) = <<>> THEN 0
          ELSE idMapGet(transcript, Head(ids))[1] + ESTIMATED_PADDING_PER_CUT)
         + EstimatedTotal(Tail(ids), transcript)

C25_HardLimitHolds ==
    selectorPc = "resolved" =>
        EstimatedTotal(filteredIds, srtData) <= targetDuration

(***************************************************************************)
(* C26  In App a non-empty generatedCuts is the result of calculateCuts on *)
(* the sequenceData and srtData that are loaded now, for ids the selector  *)
(* can deliver for that srtData.                                           *)
(***************************************************************************)
C26_GeneratedCutsAreCurrent ==
    Len(app.generatedCuts) > 0 =>
        /\ app.sequenceData # <<>>
        /\ \E ai \in AiResponses :
              app.generatedCuts
                  = calculateCutsOf(postProcess(ai, app.srtData,
                                                AppTargetDuration),
                                    app.srtData, app.sequenceData[1])

(***************************************************************************)
(* C27  In every reachable App state viewMode = 'generated' implies that   *)
(* generatedCuts is not empty.                                             *)
(***************************************************************************)
C27_GeneratedViewHasCuts ==
    app.viewMode = "generated" => Len(app.generatedCuts) > 0

(***************************************************************************)
(* C28  Provided the selector promise settles, every run of                *)
(* handleRunDirector that set 'thinking' ends by setting 'done' or         *)
(* 'error', and the status does not stay 'thinking' or 'calculating'       *)
(* forever.                                                                *)
(***************************************************************************)
RunPending(i) == Len(run) >= i /\ run[i].phase # "finished"

RunEnded(i) ==
    /\ Len(run) >= i
    /\ EventAt(run[i], "done") > 0 \/ EventAt(run[i], "error") > 0

C28_RunsEndInDoneOrError ==
    /\ \A i \in 1..MaxFairRuns : RunPending(i) ~> RunEnded(i)
    /\ (app.status \in {"thinking", "calculating"})
           ~> (app.status \in {"done", "error"})

\* a run that was reset while it waited for the selector and went on to
\* store an empty cut list
C28_Witness ==
    /\ Len(run) >= 1
    /\ EventAt(run[1], "done") > 0
    /\ app.sequenceData = <<>>
    /\ Len(app.generatedCuts) = 0
    /\ app.status = "done"

(***************************************************************************)
(* C29  Repeating an id in the selection does not change the result:       *)
(* calculateCuts returns the cut list of the selection with the            *)
(* duplicates removed.                                                     *)
(***************************************************************************)
RECURSIVE Deduplicated(_)
Deduplicated(ids) ==
    IF ids = <<>> THEN <<>>
    ELSE <<Head(ids)>> \o Deduplicated(Without(Tail(ids), Head(ids)))

C29_DuplicatesDoNotMatter ==
    Returned =>
        finalCuts = calculateCutsOf(Deduplicated(selectedSrtIds), fullSrt,
                                    sequenceData)

(***************************************************************************)
(* C30  With the built-in padding every raw segment lasts at least         *)
(* paddingHead + 1 = 6 frames, so does every returned cut, and a selected  *)
(* id is dropped only when it is unknown, has no positive frame duration,  *)
(* or starts on a frame no clip covers.                                    *)
(***************************************************************************)
C30_SegmentsLastSixFrames ==
    Returned =>
        /\ \A i \in 1..Len(rawSegments) :
              rawSegments[i].sourceOut - rawSegments[i].sourceIn
                  >= paddingHead + 1
        /\ \A i \in 1..Len(finalCuts) :
              finalCuts[i].duration >= paddingHead + 1
        /\ \A id \in SelectableIds :
              (Selected(id) /\ Owned(id)) =>
                  \E i \in 1..Len(rawSegments) : rawSegments[i].srtId = id

\* a segment cut short by the end of its clip: it lasts less than its frames
\* plus both paddings
C30_Witness ==
    /\ Returned
    /\ \E i \in 1..Len(rawSegments) :
          LET id == rawSegments[i].srtId IN
          /\ OwningClip(id).end - startFrameOf(id)
                < endFrameOf(id) - startFrameOf(id) + paddingTail
          /\ rawSegments[i].sourceOut - rawSegments[i].sourceIn
                < (endFrameOf(id) - startFrameOf(id))
                  + paddingHead + paddingTail

====
